---------------------------- MODULE Spec2Model ----------------------------
(***************************************************************************)
(* A model of URLSearch (src/src/url-search.ts), a polyfill of the         *)
(* URLSearchParams standard: an object `secret` that maps parameter names  *)
(* to arrays of values, its constructor, its mutators (append, delete,     *)
(* set, sort) and its readers (get, getAll, has, forEach, keys, values,    *)
(* entries, toString).                                                     *)
(*                                                                         *)
(* A JavaScript string is modelled as the sequence of its UTF-16 code      *)
(* units (numbers), so that "a+b" is <<97, 43, 98>>.  The conversions of   *)
(* the code (decodeURIComponent, encodeURIComponent, split, the default    *)
(* comparison of Array.prototype.sort, the property order of an ordinary   *)
(* object) are computed on these sequences.                                *)
(***************************************************************************)
EXTENDS Integers, Sequences, FiniteSets, TLC

(***************************************************************************)
(* Strings of the model, written out as code units.                        *)
(***************************************************************************)
EmptyStr == <<>>
S_a == <<97>>                                   \* "a"
S_x == <<120>>                                  \* "x"
S_9 == <<57>>                                   \* "9"
S_10 == <<49, 48>>                              \* "10"
S_5 == <<53>>                                   \* "5"
S_aPlusb == <<97, 43, 98>>                      \* "a+b"
S_pct20 == <<37, 50, 48>>                       \* "%20"
S_pct == <<37>>                                 \* "%"
S_toString == <<116, 111, 83, 116, 114, 105, 110, 103>>     \* "toString"
S_constructor == <<99, 111, 110, 115, 116, 114, 117, 99, 116, 111, 114>>
S_valueOf == <<118, 97, 108, 117, 101, 79, 102>>            \* "valueOf"
S_hasOwnProperty ==
  <<104, 97, 115, 79, 119, 110, 80, 114, 111, 112, 101, 114, 116, 121>>

(***************************************************************************)
(* Helpers on sequences.                                                   *)
(***************************************************************************)
Range(s) == {s[i] : i \in DOMAIN s}

Slice(s, from, to) == SubSeq(s, from, to)

RECURSIVE Concat(_)
Concat(ss) == IF ss = <<>> THEN <<>> ELSE Head(ss) \o Concat(Tail(ss))

(***************************************************************************)
(* Hexadecimal digits.                                                     *)
(***************************************************************************)
HexVal(c) ==
  IF c \in 48..57 THEN c - 48
  ELSE IF c \in 65..70 THEN c - 55
  ELSE IF c \in 97..102 THEN c - 87
  ELSE -1

HexDigit(v) == IF v < 10 THEN 48 + v ELSE 55 + v

\* "%XX" for one octet, upper-case hexadecimal as encodeURIComponent writes it
PctOctet(b) == <<37, HexDigit(b \div 16), HexDigit(b % 16)>>

\* the octet that the escape at s[i..i+2] denotes, or -1 when there is none
OctetAt(s, i) ==
  IF i + 2 <= Len(s) /\ s[i] = 37 /\ HexVal(s[i + 1]) >= 0 /\ HexVal(s[i + 2]) >= 0
  THEN 16 * HexVal(s[i + 1]) + HexVal(s[i + 2])
  ELSE -1

(***************************************************************************)
(* Results of the two conversions: [ok |-> TRUE, s |-> the string], or     *)
(* Failed when the conversion raises URIError.                             *)
(***************************************************************************)
Ok(s) == [ok |-> TRUE, s |-> s]
Failed == [ok |-> FALSE, s |-> <<>>]
Prepend(s, rest) == IF rest.ok THEN Ok(s \o rest.s) ELSE Failed

(***************************************************************************)
(* decodeURIComponent: every %XX escape becomes the character it encodes   *)
(* (UTF-8), every other code unit is kept; a '%' that starts no valid      *)
(* escape, or escapes that are not valid UTF-8, raise URIError.            *)
(***************************************************************************)
\* the number of octets that a UTF-8 sequence starting with b has, or 0
Utf8Len(b) ==
  IF b < 0 THEN 0
  ELSE IF b < 128 THEN 1
  ELSE IF b \in 194..223 THEN 2
  ELSE IF b \in 224..239 THEN 3
  ELSE IF b \in 240..244 THEN 4
  ELSE 0

\* the code point of the octets o[0], ..., o[n - 1], or -1 when they are not
\* the UTF-8 encoding of one
Utf8Value(o, n) ==
  IF \E k \in 1..(n - 1) : o[k] \notin 128..191 THEN -1
  ELSE IF n = 1 THEN o[0]
  ELSE IF n = 2 THEN (o[0] - 192) * 64 + (o[1] - 128)
  ELSE IF n = 3 THEN (o[0] - 224) * 4096 + (o[1] - 128) * 64 + (o[2] - 128)
  ELSE (o[0] - 240) * 262144 + (o[1] - 128) * 4096 + (o[2] - 128) * 64 + (o[3] - 128)

Utf8Valid(cp, n) ==
  IF cp < 0 THEN -1
  ELSE IF n = 3 /\ (cp < 2048 \/ cp \in 55296..57343) THEN -1
  ELSE IF n = 4 /\ cp \notin 65536..1114111 THEN -1
  ELSE cp

\* the code point of the n escapes starting at s[i], or -1
Utf8CodePoint(s, i, n) ==
  Utf8Valid(Utf8Value([k \in 0..(n - 1) |-> OctetAt(s, i + 3 * k)], n), n)

\* a code point as UTF-16 code units
CodeUnits(cp) ==
  IF cp < 65536 THEN <<cp>>
  ELSE <<55296 + ((cp - 65536) \div 1024), 56320 + ((cp - 65536) % 1024)>>

RECURSIVE DecodeFrom(_, _)
RECURSIVE DecodeEscape(_, _, _)
RECURSIVE DecodeCodePoint(_, _, _, _)

DecodeFrom(s, i) ==
  IF i > Len(s) THEN Ok(<<>>)
  ELSE IF s[i] # 37 THEN Prepend(<<s[i]>>, DecodeFrom(s, i + 1))
  ELSE DecodeEscape(s, i, Utf8Len(OctetAt(s, i)))

DecodeEscape(s, i, n) ==
  IF n = 0 THEN Failed ELSE DecodeCodePoint(s, i, n, Utf8CodePoint(s, i, n))

DecodeCodePoint(s, i, n, cp) ==
  IF cp < 0 THEN Failed ELSE Prepend(CodeUnits(cp), DecodeFrom(s, i + 3 * n))

decodeURIComponent(s) == DecodeFrom(s, 1)

(***************************************************************************)
(* encodeURIComponent: the unreserved characters A-Z a-z 0-9 - _ . ! ~ * ' *)
(* ( ) are kept, every other character becomes the %XX escapes of its      *)
(* UTF-8 octets; a lone surrogate raises URIError.                         *)
(***************************************************************************)
Unreserved(c) ==
  \/ c \in 65..90 \/ c \in 97..122 \/ c \in 48..57
  \/ c \in {45, 95, 46, 33, 126, 42, 39, 40, 41}

\* the UTF-8 octets of a code point
Utf8Octets(cp) ==
  IF cp < 128 THEN <<cp>>
  ELSE IF cp < 2048 THEN <<192 + (cp \div 64), 128 + (cp % 64)>>
  ELSE IF cp < 65536
    THEN <<224 + (cp \div 4096), 128 + ((cp \div 64) % 64), 128 + (cp % 64)>>
  ELSE <<240 + (cp \div 262144), 128 + ((cp \div 4096) % 64),
         128 + ((cp \div 64) % 64), 128 + (cp % 64)>>

EscapeOctets(os) == Concat([k \in DOMAIN os |-> PctOctet(os[k])])

Utf8Escapes(cp) == EscapeOctets(Utf8Octets(cp))

RECURSIVE EncodeFrom(_, _)
EncodeFrom(s, i) ==
  IF i > Len(s) THEN Ok(<<>>)
  ELSE IF Unreserved(s[i]) THEN Prepend(<<s[i]>>, EncodeFrom(s, i + 1))
  ELSE IF s[i] \in 56320..57343 THEN Failed
  ELSE IF s[i] \in 55296..56319
    THEN IF i + 1 <= Len(s) /\ s[i + 1] \in 56320..57343
         THEN Prepend(Utf8Escapes((s[i] - 55296) * 1024 + (s[i + 1] - 56320) + 65536),
                      EncodeFrom(s, i + 2))
         ELSE Failed
  ELSE Prepend(Utf8Escapes(s[i]), EncodeFrom(s, i + 1))

encodeURIComponent(s) == EncodeFrom(s, 1)

(***************************************************************************)
(* URLSearch.encodeURI, lines 224-237: encodeURIComponent, then every      *)
(* match of /[!'\(\)~]|%20|%00/g replaced through replacePairs.            *)
(***************************************************************************)
RECURSIVE ReplaceFrom(_, _)
ReplaceFrom(e, i) ==
  IF i > Len(e) THEN <<>>
  ELSE IF e[i] \in {33, 39, 40, 41, 126}
    THEN PctOctet(e[i]) \o ReplaceFrom(e, i + 1)
  ELSE IF i + 2 <= Len(e) /\ Slice(e, i, i + 2) = <<37, 50, 48>>
    THEN <<43>> \o ReplaceFrom(e, i + 3)
  ELSE IF i + 2 <= Len(e) /\ Slice(e, i, i + 2) = <<37, 48, 48>>
    THEN <<0>> \o ReplaceFrom(e, i + 3)
  ELSE <<e[i]>> \o ReplaceFrom(e, i + 1)

ReplaceIn(e) == IF e.ok THEN Ok(ReplaceFrom(e.s, 1)) ELSE Failed

encodeURI(str) == ReplaceIn(encodeURIComponent(str))

(***************************************************************************)
(* (val + '').replace(/\+/g, ''): every '+' is removed.                    *)
(***************************************************************************)
RECURSIVE RemovePlus(_)
RemovePlus(s) ==
  IF s = <<>> THEN <<>>
  ELSE IF Head(s) = 43 THEN RemovePlus(Tail(s))
  ELSE <<Head(s)>> \o RemovePlus(Tail(s))

\* decodeURIComponent((val + '').replace(/\+/g, '')), line 66
DecodeValue(s) == decodeURIComponent(RemovePlus(s))

(***************************************************************************)
(* JavaScript values passed to the methods: v.t is the type and v.a the    *)
(* strings it holds -- <<s>> for the string s, the elements for an array   *)
(* of strings, <<the string form>> for a number, <<>> for undefined.       *)
(***************************************************************************)
Undefined == [t |-> "undefined", a |-> <<>>]
String(s) == [t |-> "string", a |-> <<s>>]
Array(ss) == [t |-> "array", a |-> ss]
Number(digits) == [t |-> "number", a |-> <<digits>>]

\* !v is false: undefined, '' and 0 are falsy, every array is truthy
Truthy(v) ==
  CASE v.t = "undefined" -> FALSE
    [] v.t = "string" -> v.a[1] # <<>>
    [] v.t = "number" -> v.a[1] # <<48>>
    [] OTHER -> TRUE

\* '' + v
ToStr(v) ==
  CASE v.t = "undefined" -> <<117, 110, 100, 101, 102, 105, 110, 101, 100>>
    [] v.t = "array" ->
         IF v.a = <<>> THEN <<>>
         ELSE Head(v.a) \o Concat([i \in 1..(Len(v.a) - 1) |-> <<44>> \o v.a[i + 1]])
    [] OTHER -> v.a[1]

(***************************************************************************)
(* The object `secret` (line 9): a sequence of its own properties          *)
(* [key |-> name, vals |-> array of values] in the order of their          *)
(* creation.  Its prototype is Object.prototype, whose members it          *)
(* inherits.  Names of the model never include "__proto__".                *)
(***************************************************************************)
ObjectPrototype == {S_toString, S_constructor, S_valueOf, S_hasOwnProperty}

HasOwn(obj, name) == \E i \in DOMAIN obj : obj[i].key = name

OwnIndex(obj, name) == CHOOSE i \in DOMAIN obj : obj[i].key = name

\* name in obj
In(obj, name) == HasOwn(obj, name) \/ name \in ObjectPrototype

\* what obj[name] is: an own array, an inherited function, or undefined
PropKind(obj, name) ==
  IF HasOwn(obj, name) THEN "array"
  ELSE IF name \in ObjectPrototype THEN "function"
  ELSE "undefined"

OwnVals(obj, name) == obj[OwnIndex(obj, name)].vals

\* delete obj[name]
DeleteProp(obj, name) == SelectSeq(obj, LAMBDA p : p.key # name)

\* obj[name] = vals: an own property keeps its place, a new one goes last
PutProp(obj, name, vals) ==
  IF HasOwn(obj, name)
  THEN [obj EXCEPT ![OwnIndex(obj, name)] = [key |-> name, vals |-> vals]]
  ELSE Append(obj, [key |-> name, vals |-> vals])

(***************************************************************************)
(* The default order of Array.prototype.sort: strings compared code unit   *)
(* by code unit, a proper prefix first.  The sort is stable.               *)
(***************************************************************************)
RECURSIVE StrLess(_, _)
StrLess(s, u) ==
  IF u = <<>> THEN FALSE
  ELSE IF s = <<>> THEN TRUE
  ELSE IF Head(s) # Head(u) THEN Head(s) < Head(u)
  ELSE StrLess(Tail(s), Tail(u))

StrLeq(s, u) == s = u \/ StrLess(s, u)

\* insertion of x after the last element that is not greater (stable)
RECURSIVE InsertSorted(_, _)
InsertSorted(sorted, x) ==
  IF sorted = <<>> THEN <<x>>
  ELSE IF StrLess(x, Head(sorted)) THEN <<x>> \o sorted
  ELSE <<Head(sorted)>> \o InsertSorted(Tail(sorted), x)

RECURSIVE SortStrings(_)
SortStrings(ss) ==
  IF ss = <<>> THEN <<>>
  ELSE InsertSorted(SortStrings(SubSeq(ss, 1, Len(ss) - 1)), ss[Len(ss)])

IsSorted(ss) == \A i \in 1..(Len(ss) - 1) : StrLeq(ss[i], ss[i + 1])

(***************************************************************************)
(* The order in which for-in and Object.keys visit own properties: the     *)
(* array indices (the canonical decimal strings "0", "1", ... up to        *)
(* 2^32 - 2 = "4294967294") in ascending numeric order, then the other     *)
(* names in the order of their creation.  Canonical decimal strings are    *)
(* compared as numbers by length first, then digit by digit.               *)
(***************************************************************************)
IsArrayIndex(s) ==
  /\ Len(s) \in 1..10
  /\ \A i \in DOMAIN s : s[i] \in 48..57
  /\ (Len(s) > 1 => s[1] # 48)
  /\ (Len(s) = 10 => StrLeq(s, <<52, 50, 57, 52, 57, 54, 55, 50, 57, 52>>))

NumLeq(s, u) == Len(s) < Len(u) \/ (Len(s) = Len(u) /\ StrLeq(s, u))

RECURSIVE SortByNumVal(_)
SortByNumVal(S) ==
  IF S = {} THEN <<>>
  ELSE LET m == CHOOSE x \in S : \A y \in S : NumLeq(x, y)
       IN  <<m>> \o SortByNumVal(S \ {m})

CreationOrder(obj) == [i \in DOMAIN obj |-> obj[i].key]

OwnKeys(obj) ==
  SortByNumVal({k \in Range(CreationOrder(obj)) : IsArrayIndex(k)})
    \o SelectSeq(CreationOrder(obj), LAMBDA k : ~IsArrayIndex(k))

(***************************************************************************)
(* s.split(c) for a one-character separator: the segments between the      *)
(* occurrences of c, at least one.                                         *)
(***************************************************************************)
RECURSIVE Split(_, _)
Split(s, c) ==
  IF \A i \in DOMAIN s : s[i] # c THEN <<s>>
  ELSE LET i == CHOOSE j \in DOMAIN s : s[j] = c /\ \A k \in 1..(j - 1) : s[k] # c
       IN  <<SubSeq(s, 1, i - 1)>> \o Split(SubSeq(s, i + 1, Len(s)), c)

(***************************************************************************)
(* What a call returns: the instance itself, undefined, null, or a value.  *)
(***************************************************************************)
This == [t |-> "this", a |-> <<>>]
Null == [t |-> "null", a |-> <<>>]

\* The result of a mutator is [secret, ret, err]: the object after the call,
\* what the call returns, and the error it raises ("none": it completes).
\* The result of a reader is [val, err].
Returned(obj, ret) == [secret |-> obj, ret |-> ret, err |-> "none"]
Raised(obj, err) == [secret |-> obj, ret |-> Undefined, err |-> err]
Value(val) == [val |-> val, err |-> "none"]
Throw(err) == [val |-> Undefined, err |-> err]

\* The compilation targets: the published build (src/dist) is ES5, where
\* for-of is an index loop up to vals.length; under ES2015 for-of asks the
\* value for its iterator.
Targets == {"ES5", "ES2015"}

(***************************************************************************)
(* append, lines 56-68.                                                    *)
(***************************************************************************)
RECURSIVE PushAll(_, _, _)
RECURSIVE PushDecoded(_, _, _, _)

\* the loop of lines 65-67; it ends without a return statement
PushAll(obj, name, vals) ==
  IF vals = <<>> THEN Returned(obj, Undefined)
  ELSE PushDecoded(obj, name, vals, DecodeValue(Head(vals)))

\* line 66: the argument of push is evaluated (and may raise URIError)
\* before push is called on this.secret[name], which has it if it is an array
PushDecoded(obj, name, vals, d) ==
  IF ~d.ok THEN Raised(obj, "URIError")
  ELSE IF PropKind(obj, name) # "array" THEN Raised(obj, "TypeError")
  ELSE PushAll(PutProp(obj, name, Append(OwnVals(obj, name), d.s)), name, Tail(vals))

\* lines 64-67 for a value that is neither a string nor an array: a number
\* has no length (ES5: the loop ends at once) and no iterator (ES2015)
IterateNumber(obj, target) ==
  IF target = "ES5" THEN Returned(obj, Undefined) ELSE Raised(obj, "TypeError")

\* lines 64-67
AppendValuesTo(obj, name, values, target) ==
  IF values.t = "number" THEN IterateNumber(obj, target)
  ELSE PushAll(obj, name, IF values.t = "string" THEN <<values.a[1]>> ELSE values.a)

\* lines 61-63
EnsureArray(obj, name) ==
  IF PropKind(obj, name) = "undefined" THEN PutProp(obj, name, <<>>) ELSE obj

append(obj, name, values, target) ==
  IF name = <<>> \/ ~Truthy(values) THEN Returned(obj, This)
  ELSE AppendValuesTo(EnsureArray(obj, name), name, values, target)

(***************************************************************************)
(* delete (76-79), set (119-122).                                          *)
(***************************************************************************)
\* a set that decodes its value as append does
set_decoding(obj, name, value) ==
  Returned(PutProp(obj, name, <<DecodeValue(ToStr(value)).s>>), This)

delete(obj, name) == Returned(DeleteProp(obj, name), This)

set(obj, name, value) == Returned(PutProp(obj, name, <<ToStr(value)>>), This)

(***************************************************************************)
(* The readers.                                                            *)
(***************************************************************************)
\* this.secret[name][0]: the first element of an own array; an empty array
\* and an inherited function have none
First(obj, name) ==
  IF HasOwn(obj, name) /\ OwnVals(obj, name) # <<>>
  THEN String(OwnVals(obj, name)[1])
  ELSE Undefined

\* get, lines 87-89
get(obj, name) == Value(IF In(obj, name) THEN First(obj, name) ELSE Null)

\* getAll, lines 97-99: an inherited function has no slice
getAll(obj, name) ==
  IF ~In(obj, name) THEN Value(Array(<<>>))
  ELSE IF HasOwn(obj, name) THEN Value(Array(OwnVals(obj, name)))
  ELSE Throw("TypeError")

\* has, lines 107-109
has(obj, name) == Value(In(obj, name))

\* secret.hasOwnProperty(name) (lines 133, 152) calls whatever the object
\* holds under "hasOwnProperty": an own property of that name is an array,
\* and the call raises TypeError
HasOwnPropertyCallable(obj) == obj = <<>> \/ ~HasOwn(obj, S_hasOwnProperty)

\* keys, lines 148-157
keys(obj) ==
  IF HasOwnPropertyCallable(obj) THEN Value(OwnKeys(obj)) ELSE Throw("TypeError")

\* the calls of the callback for one name, lines 134-137
CallsFor(obj, name) ==
  [j \in DOMAIN OwnVals(obj, name) |-> [value |-> OwnVals(obj, name)[j], name |-> name]]

\* the calls of the callback over the names ks, in order
CallsOver(obj, ks) == Concat([i \in DOMAIN ks |-> CallsFor(obj, ks[i])])

\* forEach, lines 130-141: the calls made to the callback, each
\* [value, name]; none when the callback is falsy
forEach(obj, hasCallback) ==
  IF ~HasOwnPropertyCallable(obj) THEN Throw("TypeError")
  ELSE IF hasCallback THEN Value(CallsOver(obj, OwnKeys(obj)))
  ELSE Value(<<>>)

\* values, lines 164-171
ValuesOf(f) ==
  IF f.err # "none" THEN f ELSE Value([i \in DOMAIN f.val |-> f.val[i].value])

values(obj) == ValuesOf(forEach(obj, TRUE))

\* entries, lines 178-184
EntriesOf(f) ==
  IF f.err # "none" THEN f
  ELSE Value([i \in DOMAIN f.val |-> <<f.val[i].name, f.val[i].value>>])

entries(obj) == EntriesOf(forEach(obj, TRUE))

\* query.join('&'), line 197
RECURSIVE JoinAmp(_)
JoinAmp(ss) ==
  IF ss = <<>> THEN <<>>
  ELSE IF Len(ss) = 1 THEN ss[1]
  ELSE ss[1] \o <<38>> \o JoinAmp(Tail(ss))

\* line 195: this.encodeURI(name) + '=' + this.encodeURI(value)
Segment(n, v) == IF n.ok /\ v.ok THEN Ok(n.s \o <<61>> \o v.s) ELSE Failed

Segments(calls) ==
  [i \in DOMAIN calls |-> Segment(encodeURI(calls[i].name), encodeURI(calls[i].value))]

JoinSegments(segs) ==
  IF \E i \in DOMAIN segs : ~segs[i].ok THEN Throw("URIError")
  ELSE Value(JoinAmp([i \in DOMAIN segs |-> segs[i].s]))

ToStringOf(f) == IF f.err # "none" THEN f ELSE JoinSegments(Segments(f.val))

\* toString, lines 191-198
toString(obj) == ToStringOf(forEach(obj, TRUE))

(***************************************************************************)
(* sort, lines 205-215: a new object that receives the sorted names in     *)
(* order, each with its sorted values.                                     *)
(***************************************************************************)
\* lines 209-212
RECURSIVE FillTemp(_, _, _)
FillTemp(temp, obj, ks) ==
  IF ks = <<>> THEN temp
  ELSE FillTemp(PutProp(temp, Head(ks), SortStrings(OwnVals(obj, Head(ks)))),
                obj, Tail(ks))

SortWith(obj, k) ==
  IF k.err # "none" THEN Raised(obj, k.err)
  ELSE Returned(FillTemp(<<>>, obj, SortStrings(k.val)), This)

sort(obj) == SortWith(obj, keys(obj))

(***************************************************************************)
(* The constructor, lines 17-47.  Its argument is                          *)
(*   [t |-> "undefined"], [t |-> "string", s |-> the query string],        *)
(*   [t |-> "array", pairs |-> the [key, value] elements],                 *)
(*   [t |-> "object", pairs |-> its own properties in creation order], or  *)
(*   [t |-> "number"] for every other kind of value;                       *)
(* an element or property is [key |-> name, vals |-> its value].           *)
(* An error of append ends the construction.                               *)
(***************************************************************************)
NoQuery == [t |-> "undefined", s |-> <<>>, pairs |-> <<>>]
StringQuery(s) == [t |-> "string", s |-> s, pairs |-> <<>>]
ArrayQuery(ps) == [t |-> "array", s |-> <<>>, pairs |-> ps]
ObjectQuery(ps) == [t |-> "object", s |-> <<>>, pairs |-> ps]
OtherQuery == [t |-> "number", s |-> <<>>, pairs |-> <<>>]

\* lines 24-26
StripQuestionMark(q) == IF q # <<>> /\ q[1] = 63 THEN Tail(q) ELSE q

\* line 31: the arguments of append, split[0] and split[1] || ''
SplitCall(split) ==
  [key |-> split[1], vals |-> String(IF Len(split) >= 2 THEN split[2] ELSE <<>>)]

\* lines 27-32: the calls of append that a query string makes
PairCalls(pairs) == [i \in DOMAIN pairs |-> SplitCall(Split(pairs[i], 61))]

StringCalls(q) == PairCalls(Split(StripQuestionMark(q), 38))

\* lines 40-44: for-in visits the own properties of the argument
PropCalls(ps, ks) == [i \in DOMAIN ks |-> ps[OwnIndex(ps, ks[i])]]

ObjectCalls(ps) == PropCalls(ps, OwnKeys(ps))

ConstructorCalls(query) ==
  CASE query.t = "string" -> StringCalls(query.s)
    [] query.t = "array" -> query.pairs
    [] query.t = "object" -> ObjectCalls(query.pairs)
    [] OTHER -> <<>>

RECURSIVE AppendAll(_, _, _)
RECURSIVE AppendNext(_, _, _)

AppendAll(obj, calls, target) ==
  IF calls = <<>> THEN Returned(obj, This)
  ELSE AppendNext(append(obj, Head(calls).key, Head(calls).vals, target),
                  Tail(calls), target)

AppendNext(r, calls, target) ==
  IF r.err # "none" THEN r ELSE AppendAll(r.secret, calls, target)

Constructor(query, target) == AppendAll(<<>>, ConstructorCalls(query), target)

(***************************************************************************)
(* The inputs of the model.                                                *)
(***************************************************************************)
\* the most calls made on one instance
MaxOps == 2

\* names: '' (falsy), an ordinary name, two array indices whose numeric and
\* lexicographic orders differ, and a member of Object.prototype
Names == {EmptyStr, S_a, S_9, S_10, S_toString}

AppendValues ==
  {Undefined, String(S_x), String(S_aPlusb), String(S_pct20), String(S_pct),
   Array(<<>>), Array(<<S_x, S_aPlusb>>), Number(S_5)}

SetValues == {String(S_aPlusb), Number(S_5)}

\* query strings: up to two pairs joined by '&', with or without a leading
\* '?'; a pair is a name alone, or a name, '=' and a value
QueryNames == {S_a, S_9}
QueryValues == {EmptyStr, S_x, S_aPlusb, S_pct20}
QueryPairs ==
  QueryNames \cup {n \o <<61>> \o v : n \in QueryNames, v \in QueryValues}
QueryBodies ==
  {EmptyStr} \cup QueryPairs \cup {p \o <<38>> \o q : p \in QueryPairs, q \in QueryPairs}
QueryStrings == QueryBodies \cup {<<63>> \o b : b \in QueryBodies}

\* the [key, value] elements of an array argument, or the properties of an
\* object argument (vals holds the value)
InputPairs ==
  {[key |-> n, vals |-> v] : n \in {S_a, S_9}, v \in {String(S_x), Array(<<>>)}}
InputLists ==
  {<<>>} \cup {<<p>> : p \in InputPairs} \cup {<<p, q>> : p \in InputPairs, q \in InputPairs}

Queries ==
  {NoQuery, OtherQuery}
    \cup {StringQuery(q) : q \in QueryStrings}
    \cup {ArrayQuery(ps) : ps \in InputLists}
    \cup {ObjectQuery(ps) : ps \in {l \in InputLists : Len(l) = 2 => l[1].key # l[2].key}}

(***************************************************************************)
(* The state: the instance's `secret`; and of the last call made, what it  *)
(* was (last), the `secret` it found (prev), what it returned (ret) and    *)
(* the error it raised (err); steps counts the calls made on the instance. *)
(***************************************************************************)
VARIABLES secret, prev, last, ret, err, steps

vars == <<secret, prev, last, ret, err, steps>>

Call(op, name, value, query) == [op |-> op, name |-> name, value |-> value, query |-> query]

\* new URLSearch(query)
Constructed(r, query) ==
  /\ secret = r.secret
  /\ prev = <<>>
  /\ last = Call("constructor", EmptyStr, Undefined, query)
  /\ ret = This
  /\ err = r.err
  /\ steps = 0

Init ==
  \E query \in Queries, target \in Targets :
    Constructed(Constructor(query, target), query)

\* a constructor that raised has produced no instance to call
Alive == ~(last.op \in {"constructor", "roundtrip"} /\ err # "none")

Mutate(r, call) ==
  /\ Alive
  /\ steps < MaxOps
  /\ secret' = r.secret
  /\ prev' = secret
  /\ last' = call
  /\ ret' = r.ret
  /\ err' = r.err
  /\ steps' = steps + 1

CallAppend ==
  \E name \in Names, value \in AppendValues, target \in Targets :
    Mutate(append(secret, name, value, target), Call("append", name, value, NoQuery))

CallDelete ==
  \E name \in Names :
    Mutate(delete(secret, name), Call("delete", name, Undefined, NoQuery))

CallSet ==
  \E name \in Names, value \in SetValues :
    Mutate(set(secret, name, value), Call("set", name, value, NoQuery))

CallSort == Mutate(sort(secret), Call("sort", EmptyStr, Undefined, NoQuery))

\* a call that leaves `secret` alone
Read(r, call) ==
  /\ Alive
  /\ steps < MaxOps
  /\ secret' = secret
  /\ prev' = secret
  /\ last' = call
  /\ ret' = r.val
  /\ err' = r.err
  /\ steps' = steps + 1

CallGet ==
  \E name \in Names : Read(get(secret, name), Call("get", name, Undefined, NoQuery))

CallGetAll ==
  \E name \in Names : Read(getAll(secret, name), Call("getAll", name, Undefined, NoQuery))

CallHas ==
  \E name \in Names : Read(has(secret, name), Call("has", name, Undefined, NoQuery))

\* forEach returns the instance (line 140); the model keeps the calls made
\* to the callback, which is given or not (value: "function" or undefined)
CallForEach ==
  \E hasCallback \in BOOLEAN :
    Read(forEach(secret, hasCallback),
         Call("forEach", EmptyStr,
              IF hasCallback THEN [t |-> "function", a |-> <<>>] ELSE Undefined, NoQuery))

CallKeys == Read(keys(secret), Call("keys", EmptyStr, Undefined, NoQuery))

CallValues == Read(values(secret), Call("values", EmptyStr, Undefined, NoQuery))

CallEntries == Read(entries(secret), Call("entries", EmptyStr, Undefined, NoQuery))

CallToString == Read(toString(secret), Call("toString", EmptyStr, Undefined, NoQuery))

\* new URLSearch(new URLSearch(query).toString()): the instance just
\* constructed is serialized and the result parsed into a new instance
Reparsed(r, out) ==
  /\ secret' = r.secret
  /\ prev' = secret
  /\ last' = Call("roundtrip", EmptyStr, out.val, last.query)
  /\ ret' = This
  /\ err' = r.err
  /\ steps' = 0

Reparse(out, target) ==
  IF out.err # "none" THEN Reparsed(Raised(secret, out.err), Value(Undefined))
  ELSE Reparsed(Constructor(StringQuery(out.val), target), Value(String(out.val)))

RoundTrip ==
  /\ Alive
  /\ last.op = "constructor"
  /\ \E target \in Targets : Reparse(toString(secret), target)

Next ==
  \/ CallAppend \/ CallDelete \/ CallSet \/ CallSort
  \/ CallGet \/ CallGetAll \/ CallHas
  \/ CallForEach \/ CallKeys \/ CallValues \/ CallEntries \/ CallToString
  \/ RoundTrip

Spec == Init /\ [][Next]_vars

\* the calls of a client that never sorts: append, set, delete and the readers
NextNoSort ==
  \/ CallAppend \/ CallDelete \/ CallSet
  \/ CallGet \/ CallGetAll \/ CallHas
  \/ CallForEach \/ CallKeys \/ CallValues \/ CallEntries \/ CallToString

SpecNoSort == Init /\ [][NextNoSort]_vars

(***************************************************************************)
(* The claims.                                                             *)
(***************************************************************************)

\* C1: every name stored in the collection maps to a non-empty sequence of
\* values: after construction and after every call, no name is left with an
\* empty sequence of values (has(name) true and getAll(name) empty).
C1_NoEmptySequence ==
  Alive =>
    \A i \in DOMAIN secret :
      has(secret, secret[i].key).val => getAll(secret, secret[i].key).val.a # <<>>

\* C2: append returns the collection itself on every path on which it
\* returns: when it is a no-op and when it stores values.
C2_AppendReturnsThis == (last.op = "append" /\ err = "none") => ret = This

\* C3: no operation ever raises an error: the constructor and every call
\* complete normally.
C3_NoError == err = "none"

\* C4: for every name absent from the collection, has(name) is false,
\* get(name) is null and getAll(name) is an empty sequence.
C4_AbsentName ==
  Alive =>
    \A name \in Names :
      ~HasOwn(secret, name) =>
        /\ has(secret, name) = Value(FALSE)
        /\ get(secret, name) = Value(Null)
        /\ getAll(secret, name) = Value(Array(<<>>))

\* C5: after construction from a query string, every pair "name=" or "name"
\* (no value) has stored the empty string under that name: has(name) is
\* true, '' is among its values, and get(name) is '' when the pair is the
\* first of that name.
C5_EmptyValueStored ==
  (last.op = "constructor" /\ last.query.t = "string" /\ err = "none") =>
    LET calls == StringCalls(last.query.s)
    IN  \A i \in DOMAIN calls :
          (calls[i].key # <<>> /\ calls[i].vals = String(<<>>)) =>
            /\ has(secret, calls[i].key).val
            /\ getAll(secret, calls[i].key).err = "none"
            /\ <<>> \in Range(getAll(secret, calls[i].key).val.a)
            /\ (\A j \in 1..(i - 1) : calls[j].key # calls[i].key)
                 => get(secret, calls[i].key) = Value(String(<<>>))

\* C6: for a collection constructed from a valid query string q, parsing its
\* toString() gives a collection with the same entries in the same order.
C6_RoundTrip ==
  (last.op = "roundtrip" /\ last.query.t = "string") =>
    /\ err = "none"
    /\ entries(secret) = entries(prev)

\* C7: after append(n, v) has completed on an empty collection, n a non-empty
\* name and v a non-empty string, get(n) is v and getAll(n) is [v].
C7_AppendThenGet ==
  (/\ last.op = "append"
   /\ prev = <<>>
   /\ last.name # <<>>
   /\ last.value.t = "string"
   /\ last.value.a[1] # <<>>
   /\ err = "none") =>
    /\ get(secret, last.name) = Value(last.value)
    /\ getAll(secret, last.name) = Value(Array(last.value.a))

\* C8: after sort(), keys() is in non-decreasing lexicographic order and so
\* is getAll(name) for every name.
C8_SortedAfterSort ==
  (last.op = "sort" /\ err = "none") =>
    /\ keys(secret).err = "none"
    /\ IsSorted(keys(secret).val)
    /\ \A i \in DOMAIN secret : IsSorted(getAll(secret, secret[i].key).val.a)

\* C9: with no call of sort, keys() lists the names present in the order in
\* which they were inserted, forEach calls the callback once for every
\* stored (name, value) in that order of names and in the order of the
\* values of a name, and values() and entries() follow the calls of forEach.
C9_InsertionOrder ==
  (Alive /\ HasOwnPropertyCallable(secret)) =>
    /\ keys(secret) = Value(CreationOrder(secret))
    /\ forEach(secret, TRUE) = Value(CallsOver(secret, CreationOrder(secret)))
    /\ values(secret) = ValuesOf(forEach(secret, TRUE))
    /\ entries(secret) = EntriesOf(forEach(secret, TRUE))

\* C10: after set(n, v), getAll(n) has exactly one element, the string form
\* of v as given (not decoded), whatever values n had before.  The string
\* form of a string or of a number is the string that the value holds.
C10_SetReplaces ==
  last.op = "set" =>
    /\ err = "none"
    /\ getAll(secret, last.name) = Value(Array(<<last.value.a[1]>>))

\* C10 witness: set(n, 'a+b') on a collection where n had two values
C10_Witness ==
  /\ last.op = "set"
  /\ last.value = String(S_aPlusb)
  /\ HasOwn(prev, last.name)
  /\ Len(OwnVals(prev, last.name)) >= 2
  /\ getAll(secret, last.name) = Value(Array(<<S_aPlusb>>))

\* C11: every value stored by append is the decoded form of the given value,
\* where decoding first replaces every '+' with a space and then applies
\* percent-decoding: a call of append that completes on a string or an array
\* of strings adds, after the values the name had, the percent-decoding of
\* each given value with its '+' turned into spaces, so that append('q', 'a+b')
\* followed by get('q') yields 'a b'.  The constructor stores values only
\* through append.
C11_AppendDecodes ==
  (/\ last.op = "append"
   /\ err = "none"
   /\ last.name # EmptyStr
   /\ last.value.t \in {"string", "array"}
   /\ Truthy(last.value)) =>
    LET given == last.value.a
        spaced == [i \in 1..Len(given) |->
                     [j \in 1..Len(given[i]) |->
                        IF given[i][j] = 43 THEN 32 ELSE given[i][j]]]
        before == IF HasOwn(prev, last.name) THEN OwnVals(prev, last.name) ELSE <<>>
        after == IF HasOwn(secret, last.name) THEN OwnVals(secret, last.name) ELSE <<>>
    IN  /\ \A i \in 1..Len(given) : decodeURIComponent(spaced[i]).ok
        /\ after = before \o [i \in 1..Len(given) |-> decodeURIComponent(spaced[i]).s]

=============================================================================
